---- MODULE Spec2Model ----
(***************************************************************************)
(* Model of the Shortify short-code allocation / resolution engine.        *)
(*                                                                         *)
(* The handlers and the URLShortener methods are modelled from             *)
(* src/internal/handlers/urlGeneration.go (lines 1-255, the Redis + SQLite *)
(* + custom-token version).  The expiration column, the clock and the      *)
(* Expiration Sweeper are not part of that file; they are modelled from    *)
(* spec.md (sections 3, 4.2, 4.4) and are marked "spec" below.             *)
(*                                                                         *)
(* A request reaches GenerateShortURL / ResolveShortURL through its HTTP   *)
(* handler or by a call of the exported method itself (as the tests of the *)
(* package do); the two differ in the checks the handler makes first.      *)
(*                                                                         *)
(* Strings that the code inspects character by character (tokens) are      *)
(* sequences of one-character strings; URLs are opaque strings.            *)
(***************************************************************************)
EXTENDS Integers, Sequences, FiniteSets, TLC

\* ---------------------------------------------------------------- bounds
NumProcs == 2
MaxCalls == 2
MaxCallsDeep == 4
MaxCallsFault == 3
MaxTime == 2
MaxID == 4000

Procs == 1..NumProcs

\* --------------------------------------------------------------- inputs
URLs == {"", "a", "b"}
CustomTokens == {<<>>, <<"2">>, <<"x", "_">>, <<"a", "@">>}
ResolveTokens == {<<>>, <<"1">>, <<"2">>, <<"x", "_">>}
\* *time.Time: <<>> is nil (no expiration), <<t>> is the instant t
Expirations == {<<>>} \cup {<<t>> : t \in 1..(MaxTime - 1)}

\* ---------------------------------------------------------------- codec
charset ==
  << "0","1","2","3","4","5","6","7","8","9",
     "A","B","C","D","E","F","G","H","I","J","K","L","M",
     "N","O","P","Q","R","S","T","U","V","W","X","Y","Z",
     "a","b","c","d","e","f","g","h","i","j","k","l","m",
     "n","o","p","q","r","s","t","u","v","w","x","y","z" >>

base == Len(charset)

validChars == {charset[i] : i \in 1..Len(charset)} \cup {"-", "_"}

\* mutant of isValidCustomURL: '@' accepted as well
isValidCustomURL_AcceptsAt(customURL) ==
  \A i \in 1..Len(customURL) : customURL[i] \in validChars \cup {"@"}

isValidCustomURL(customURL) ==
  \A i \in 1..Len(customURL) : customURL[i] \in validChars

RECURSIVE encodeLoop(_, _)
encodeLoop(num, result) ==
  IF num > 0
    THEN encodeLoop(num \div base, <<charset[(num % base) + 1]>> \o result)
    ELSE result

encodeBase62(num) == encodeLoop(num, <<>>)

\* who calls: the HTTP handler (POST /generate, GET /{shortURL}), or code that
\* calls the exported URLShortener method itself, as the tests do
Callers == {"handler", "method"}

\* generate requests: every combination of a non-empty URL, no or a valid
\* custom token and an expiration; a request that is rejected before the Store
\* is touched (invalid token) comes in one variant; the empty URL comes without
\* token and expiration.  A call of the method differs from a request through
\* the handler in the handler's checks only, so it comes in for the empty URL
\* and for one other request.
GenRequests ==
  {i \in [url : URLs, tok : CustomTokens, exp : Expirations, via : Callers] :
     /\ i.url = "" => (i.tok = <<>> /\ i.exp = <<>>)
     /\ ~isValidCustomURL(i.tok) => (i.url = "a" /\ i.exp = <<>>)
     /\ i.via = "method" => (i.url \in {"", "a"} /\ i.tok = <<>> /\ i.exp = <<>>)}

\* resolve requests; a call of the method comes in for the empty token and for
\* one other token
ResRequests ==
  {i \in [tok : ResolveTokens, via : Callers] :
     i.via = "method" => i.tok \in {<<>>, <<"1">>}}

\* a narrower set of requests, for longer runs: entries that expire, created
\* with a generated token or with the custom token "2"
DeepGenRequests ==
  {i \in GenRequests : /\ i.url # "" /\ i.tok \in {<<>>, <<"2">>} /\ i.exp # <<>>
                       /\ i.via = "handler"}
DeepResRequests ==
  {i \in ResRequests : i.tok \in {<<"1">>, <<"2">>} /\ i.via = "handler"}

\* ------------------------------------------------------------- database
\* Table urls: id INTEGER PRIMARY KEY AUTOINCREMENT, short_url TEXT NOT NULL
\* UNIQUE, original_url TEXT NOT NULL (+ expiration_time, spec).
\* mutant of Row: the expiration is not stored
Row_NoExpiration(id, short, orig, exp) ==
  [id |-> id, short_url |-> short, original_url |-> orig, expiration_time |-> <<>>]

Row(id, short, orig, exp) ==
  [id |-> id, short_url |-> short, original_url |-> orig, expiration_time |-> exp]

SetMax(S) == CHOOSE m \in S : \A x \in S : x <= m

\* mutant of nextID: the + 1 is missing
nextID_NoIncrement(rows) ==
  IF rows = {} THEN 0 ELSE SetMax({r.id : r \in rows})

\* SELECT COALESCE(MAX(id), 0) + 1 FROM urls
nextID(rows) ==
  (IF rows = {} THEN 0 ELSE SetMax({r.id : r \in rows})) + 1

\* mutant of existsShort: the token is never found
existsShort_Never(rows, short) == FALSE

\* SELECT EXISTS(SELECT 1 FROM urls WHERE short_url = ?)
existsShort(rows, short) == \E r \in rows : r.short_url = short

\* rowid chosen by AUTOINCREMENT when the INSERT names no id
autoID(rows, sq) ==
  (IF rows = {} THEN sq ELSE
     (IF SetMax({r.id : r \in rows}) > sq THEN SetMax({r.id : r \in rows}) ELSE sq)) + 1

\* PRIMARY KEY and UNIQUE constraints of an INSERT
constraintOK(rows, id, short) ==
  /\ \A r \in rows : r.id # id
  /\ \A r \in rows : r.short_url # short

\* mutant of lookupRows: the WHERE clause is missing
lookupRows_Any(rows, short) == rows

\* SELECT original_url FROM urls WHERE short_url = ?
lookupRows(rows, short) == {r \in rows : r.short_url = short}

\* mutant of expiredRows: the clock is not looked at
expiredRows_IgnoresClock(rows, t) == {r \in rows : r.expiration_time # <<>>}

\* delete_expired(now): entries with non-null expires_at < now          (spec)
expiredRows(rows, t) ==
  {r \in rows : r.expiration_time # <<>> /\ r.expiration_time[1] < t}

\* ---------------------------------------------------------------- state
VARIABLES
  db,       \* rows of table urls
  seq,      \* sqlite_sequence of table urls (AUTOINCREMENT high-water mark)
  cache,    \* Redis: function token -> original_url over the cached keys
  mu,       \* URLShortener.mu: 0 free, else the process holding it
  now,      \* clock                                                    (spec)
  pc,       \* position of every request goroutine
  req,      \* arguments of the request in flight (kept until the next one)
  loc,      \* locals of the request in flight
  hist,     \* history of the request in flight (not read by the program)
  result,   \* what the finished request returned
  acc,      \* resources the request in flight has touched so far (history)
  ncalls,   \* requests issued so far
  spc,      \* position of the Sweeper                                  (spec)
  evictq,   \* tokens the Sweeper still has to evict                    (spec)
  sweepLog, \* history: the tokens of the expired entries that a failed
            \* deletion of the Sweeper left in the Store (left), whether a
            \* later tick has removed such an entry (healed), and the tokens
            \* whose entry a tick has deleted at some time (deleted)    (spec)
  sweptTok  \* history: the tokens whose entry a tick has deleted and evicted
            \* and that were not inserted again, each with whether the Cache
            \* held it when it was evicted (cached) and whether a resolve
            \* has populated the Cache with it since (repop)           (spec)

vars == <<db, seq, cache, mu, now, pc, req, loc, hist, result, acc, ncalls,
          spc, evictq, sweepLog, sweptTok>>

NoReq == [op |-> "none", url |-> "", tok |-> <<>>, exp |-> <<>>, via |-> "none"]

\* locals: id (generated path), exists (custom path / row found), url (row read)
NoLoc == [id |-> 0, exists |-> FALSE, url |-> ""]

\* history of one request:
\*   fresh  the custom token was absent from the Store when the request came in
\*   fault  a Store operation of this request failed (I/O error)
\*   cerr   the Cache read of this request failed
\*   held   the mutex was held by someone when the request came in (for a
\*          resolve: at its Cache read)
\*   stale  the Cache held a value for the token when this request inserted it
\*   past   the entry was inserted with an expiration earlier than the clock
\*   swept  the Sweeper deleted the entry this request created / asked for
\*   gurl   resolve: URL of the finished generate that returned the token ("" if none)
\*   gstale resolve: the stale flag of that generate
\*   gswept resolve: the token was in sweptTok when the request came in and
\*          has not been inserted since
\*   grepop resolve: sweptTok had repop set for the token at that moment
\*   cached, cval  resolve: the Cache held the token, with this value, at the
\*          Cache read
\*   ids    generate: the ids of the rows of the table when MAX(id) was read
\*   present, purl  the Store held the token, with this URL, at the lookup
NoHist == [fresh |-> FALSE, fault |-> FALSE, cerr |-> FALSE, held |-> FALSE,
           stale |-> FALSE, past |-> FALSE, swept |-> FALSE,
           gurl |-> "", gstale |-> FALSE, gswept |-> FALSE, grepop |-> FALSE,
           cached |-> FALSE, cval |-> "", ids |-> {},
           present |-> FALSE, purl |-> ""]

\* the Store as the history sees it
InStore(tok) == \E r \in db : r.short_url = tok
StoredURL(tok) == (CHOOSE r \in db : r.short_url = tok).original_url

NoSweepLog == [left |-> {}, healed |-> FALSE, deleted |-> {}]

NoResult == [kind |-> "none", val |-> <<>>, url |-> "", status |-> 0]

\* kind: what the call came to; val: the token returned by generate; url: the
\* URL returned by resolve; status: the HTTP status the handler answers with
\* (0 for a call of the method, which has none)
Result(kind, val, url, status) ==
  [kind |-> kind, val |-> val, url |-> url, status |-> status]

Init ==
  /\ db = {}
  /\ seq = 0
  /\ cache = <<>>
  /\ mu = 0
  /\ now = 1
  /\ pc = [p \in Procs |-> "idle"]
  /\ req = [p \in Procs |-> NoReq]
  /\ loc = [p \in Procs |-> NoLoc]
  /\ hist = [p \in Procs |-> NoHist]
  /\ result = [p \in Procs |-> NoResult]
  /\ acc = [p \in Procs |-> {}]
  /\ ncalls = 0
  /\ spc = "sleep"
  /\ evictq = {}
  /\ sweepLog = NoSweepLog
  /\ sweptTok = <<>>

\* ----------------------------------------------------------------- lock
\* mutant of lockFree: the mutex never blocks
lockFree_Always(m) == TRUE

\* us.mu.Lock() proceeds only when no goroutine holds the mutex
lockFree(m) == m = 0

\* mutant of unlock: the return leaves the mutex with its holder
unlock_Forgotten(holder) == holder

\* the deferred us.mu.Unlock() that runs at every return: the mutex is free
unlock(holder) == 0

\* mutant of lockedSection: ResolveShortURL locks before it reads the cache
lockedSection_WholeResolve(at) == at \in {"g_lock", "r_lock", "r_cache"}

\* the positions at which a goroutine has to get us.mu before it goes on
lockedSection(at) == at \in {"g_lock", "r_lock"}

\* body.OriginalURL == ""
emptyOriginalURL(url) == url = ""

\* shortURL == ""
emptyShortURL(tok) == tok = <<>>

\* mutant of insertFailed: the error of the INSERT is not looked at
insertFailed_Ignored(rows, id, short, dbok) == FALSE

\* err != nil after db.Exec(insertQuery, ...)
insertFailed(rows, id, short, dbok) == ~(dbok /\ constraintOK(rows, id, short))

Max(a, b) == IF a > b THEN a ELSE b

\* redis GET: err is nil on a hit, redis.Nil on a missing key, else an error
cacheGet(c, k, cok) ==
  IF ~cok THEN [err |-> "error", val |-> ""]
  ELSE IF k \in DOMAIN c THEN [err |-> "nil", val |-> c[k]]
  ELSE [err |-> "redis.Nil", val |-> ""]

\* mutant of hitOnGet: only redis.Nil counts as a miss
hitOnGet_ErrorIsHit(g) == g.err # "redis.Nil"

\* err == nil after us.cache.Get
hitOnGet(g) == g.err = "nil"

\* mutant of cacheSet: the keys that were there are dropped
cacheSet_DropsOthers(c, k, v) == [t \in {k} |-> v]

\* redis SET on the cache
cacheSet(c, k, v) == [t \in DOMAIN c \cup {k} |-> IF t = k THEN v ELSE c[t]]

\* mutant of cacheAfterSet: the value is in the cache although SET failed
cacheAfterSet_WritesAnyway(c, k, v, cok) == cacheSet(c, k, v)

\* the cache after us.cache.Set(...).Err(): unchanged when SET failed
cacheAfterSet(c, k, v, cok) == IF cok THEN cacheSet(c, k, v) ELSE c

\* mutant of cacheDel: the key stays
cacheDel_Noop(c, k) == c

\* the key leaves the cache (TTL over, or DEL)
cacheDel(c, k) == [t \in DOMAIN c \ {k} |-> c[t]]

\* http.Error / http.Redirect / the 200 of the handler; a call of the method
\* gets no status
httpStatus(via, code) == IF via = "handler" THEN code ELSE 0

Finish(p, r) ==
  /\ result' = [result EXCEPT ![p] = r]
  /\ pc' = [pc EXCEPT ![p] = "done"]

\* ------------------------------------------------------ GenerateHandler
\* decode the body, reject an empty original_url, else call GenerateShortURL
GenCall(p, url, custom, exp, via, limit) ==
  /\ pc[p] \in {"idle", "done"}
  /\ ncalls < limit
  /\ ncalls' = ncalls + 1
  /\ acc' = [acc EXCEPT ![p] = {}]
  /\ req' = [req EXCEPT ![p] = [op |-> "generate", url |-> url, tok |-> custom,
                                   exp |-> exp, via |-> via]]
  /\ loc' = [loc EXCEPT ![p] = NoLoc]
  /\ hist' = [hist EXCEPT ![p] = [NoHist EXCEPT !.fresh = ~InStore(custom),
                                                 !.held = (mu # 0)]]
  /\ IF via = "handler" /\ emptyOriginalURL(url)
       THEN Finish(p, Result("EmptyURL", <<>>, "", 400))
       ELSE /\ pc' = [pc EXCEPT ![p] = "g_lock"]
            /\ result' = [result EXCEPT ![p] = NoResult]
  /\ UNCHANGED <<db, seq, cache, mu, now, spc, evictq, sweptTok, sweepLog>>

\* us.mu.Lock(), then the first statement under the mutex: on the custom path
\* validation and SELECT EXISTS, on the generated path SELECT MAX(id)+1;
\* every return runs the deferred us.mu.Unlock()
GenCheck(p, oks) ==
  /\ pc[p] = "g_lock"
  /\ lockedSection("g_lock") => lockFree(mu)
  /\ UNCHANGED <<db, seq, cache, now, req, ncalls, spc, evictq, sweptTok, sweepLog>>
  /\ IF req[p].tok # <<>> /\ ~isValidCustomURL(req[p].tok)
       THEN /\ Finish(p, Result("InvalidCustomToken", <<>>, "", httpStatus(req[p].via, 400)))
            /\ mu' = unlock(p)
            /\ acc' = [acc EXCEPT ![p] = @ \cup {"lock"}]
            /\ UNCHANGED <<loc, hist>>
       ELSE \E dbok \in oks :
              /\ acc' = [acc EXCEPT ![p] = @ \cup {"lock", "store"}]
              /\ IF ~dbok
                   THEN /\ Finish(p, Result("StoreError", <<>>, "", httpStatus(req[p].via, 400)))
                        /\ hist' = [hist EXCEPT ![p].fault = TRUE]
                        /\ mu' = unlock(p)
                        /\ UNCHANGED loc
                   ELSE IF req[p].tok # <<>>
                     THEN /\ loc' = [loc EXCEPT ![p].exists = existsShort(db, req[p].tok)]
                          /\ hist' = [hist EXCEPT ![p].present = InStore(req[p].tok)]
                          /\ IF existsShort(db, req[p].tok)
                               THEN /\ Finish(p, Result("DuplicateCustomToken", <<>>, "", httpStatus(req[p].via, 400)))
                                    /\ mu' = unlock(p)
                               ELSE /\ pc' = [pc EXCEPT ![p] = "g_insert"]
                                    /\ mu' = p
                                    /\ UNCHANGED result
                     ELSE /\ loc' = [loc EXCEPT ![p].id = nextID(db)]
                          /\ hist' = [hist EXCEPT ![p].ids = {r.id : r \in db}]
                          /\ pc' = [pc EXCEPT ![p] = "g_insert"]
                          /\ mu' = p
                          /\ UNCHANGED result

\* INSERT INTO urls ...; return; deferred us.mu.Unlock()
GenInsert(p, oks) ==
  /\ pc[p] = "g_insert"
  /\ \E dbok \in oks :
       LET custom == req[p].tok # <<>>
           id     == IF custom THEN autoID(db, seq) ELSE loc[p].id
           short  == IF custom THEN req[p].tok ELSE encodeBase62(id)
           stored == dbok /\ constraintOK(db, id, short)
       IN /\ db' = IF stored THEN db \cup {Row(id, short, req[p].url, req[p].exp)} ELSE db
          /\ seq' = IF stored THEN Max(seq, id) ELSE seq
          /\ loc' = [loc EXCEPT ![p].id = id]
          /\ acc' = [acc EXCEPT ![p] = @ \cup (IF stored THEN {"insert"} ELSE {"store"})]
          /\ hist' = [q \in Procs |->
                       IF q = p
                         THEN [hist[p] EXCEPT !.fault = ~dbok,
                                 !.stale = stored /\ short \in DOMAIN cache,
                                 !.past = stored /\ req[p].exp # <<>> /\ req[p].exp[1] < now]
                       ELSE IF stored /\ req[q].op = "resolve" /\ req[q].tok = short
                         THEN [hist[q] EXCEPT !.gswept = FALSE]
                       ELSE hist[q]]
          /\ sweptTok' = IF stored THEN [t \in DOMAIN sweptTok \ {short} |-> sweptTok[t]]
                                    ELSE sweptTok
          /\ IF insertFailed(db, id, short, dbok)
               THEN Finish(p, Result("StoreError", <<>>, "", httpStatus(req[p].via, 400)))
               ELSE Finish(p, Result("ok", short, "", httpStatus(req[p].via, 200)))
  /\ mu' = unlock(p)
  /\ UNCHANGED <<cache, now, req, ncalls, spc, evictq, sweepLog>>

\* ------------------------------------------------------- ResolveHandler
\* finished generate calls that returned tok and whose entry was not swept
Generators(tok) ==
  {q \in Procs : /\ pc[q] = "done"
                 /\ req[q].op = "generate"
                 /\ result[q].kind = "ok"
                 /\ result[q].val = tok
                 /\ ~hist[q].swept}

\* reject an empty shortURL, else call ResolveShortURL, which starts with
\* us.cache.Get: a hit returns at once, a miss or an error falls through
ResCall(p, tok, via, limit, oks) ==
  /\ pc[p] \in {"idle", "done"}
  /\ ncalls < limit
  /\ ncalls' = ncalls + 1
  /\ req' = [req EXCEPT ![p] = [op |-> "resolve", url |-> "", tok |-> tok,
                                   exp |-> <<>>, via |-> via]]
  /\ loc' = [loc EXCEPT ![p] = NoLoc]
  /\ IF via = "handler" /\ emptyShortURL(tok)
       THEN /\ Finish(p, Result("EmptyToken", <<>>, "", 400))
            /\ acc' = [acc EXCEPT ![p] = {}]
            /\ hist' = [hist EXCEPT ![p] = NoHist]
       ELSE /\ lockedSection("r_cache") => lockFree(mu)
            /\ acc' = [acc EXCEPT ![p] = {"cache"}]
            /\ \E cok \in oks :
                 LET g == cacheGet(cache, tok, cok)
                     h == IF Generators(tok) = {} THEN NoHist
                          ELSE LET q == CHOOSE x \in Generators(tok) : TRUE
                               IN [NoHist EXCEPT !.gurl = req[q].url,
                                                 !.gstale = hist[q].stale]
                 IN /\ hist' = [hist EXCEPT ![p] =
                                  [h EXCEPT !.cerr = (g.err = "error"), !.held = (mu # 0),
                                            !.gswept = tok \in DOMAIN sweptTok,
                                            !.grepop = tok \in DOMAIN sweptTok
                                                         /\ sweptTok[tok].repop,
                                            !.cached = tok \in DOMAIN cache,
                                            !.cval = IF tok \in DOMAIN cache
                                                       THEN cache[tok] ELSE ""]]
                    /\ IF hitOnGet(g)
                         THEN Finish(p, Result("found", <<>>, g.val, httpStatus(via, 302)))
                         ELSE /\ pc' = [pc EXCEPT ![p] = "r_lock"]
                              /\ result' = [result EXCEPT ![p] = NoResult]
  /\ UNCHANGED <<db, seq, cache, mu, now, spc, evictq, sweptTok, sweepLog>>

\* us.mu.Lock(), then SELECT original_url ...: any error (no row, database
\* failure) is not-found and runs the deferred us.mu.Unlock()
ResDB(p, oks) ==
  /\ pc[p] = "r_lock"
  /\ lockedSection("r_lock") => lockFree(mu)
  /\ acc' = [acc EXCEPT ![p] = @ \cup {"lock", "store"}]
  /\ \E dbok \in oks :
       /\ hist' = [hist EXCEPT ![p].fault = ~dbok,
                               ![p].present = InStore(req[p].tok),
                               ![p].purl = IF InStore(req[p].tok)
                                             THEN StoredURL(req[p].tok) ELSE ""]
       /\ IF ~dbok \/ lookupRows(db, req[p].tok) = {}
            THEN /\ Finish(p, Result("notfound", <<>>, "", httpStatus(req[p].via, 404)))
                 /\ mu' = unlock(p)
                 /\ UNCHANGED loc
            ELSE /\ loc' = [loc EXCEPT ![p].exists = TRUE,
                              ![p].url = (CHOOSE r \in lookupRows(db, req[p].tok) : TRUE).original_url]
                 /\ pc' = [pc EXCEPT ![p] = "r_set"]
                 /\ mu' = p
                 /\ UNCHANGED result
  /\ UNCHANGED <<db, seq, cache, now, req, ncalls, spc, evictq, sweptTok, sweepLog>>

\* us.cache.Set(..., 24h), its error only logged; return; deferred Unlock
ResSet(p, oks) ==
  /\ pc[p] = "r_set"
  /\ \E cok \in oks :
       /\ cache' = cacheAfterSet(cache, req[p].tok, loc[p].url, cok)
       /\ acc' = [acc EXCEPT ![p] = @ \cup (IF cok THEN {"cacheset"} ELSE {"cacheerr"})]
       /\ sweptTok' = IF cok /\ req[p].tok \in DOMAIN sweptTok
                        THEN [sweptTok EXCEPT ![req[p].tok].repop = TRUE]
                        ELSE sweptTok
  /\ Finish(p, Result("found", <<>>, loc[p].url, httpStatus(req[p].via, 302)))
  /\ mu' = unlock(p)
  /\ UNCHANGED <<db, seq, now, req, loc, hist, ncalls, spc, evictq, sweepLog>>

\* ------------------------------------------------- cache TTL and clock
\* a key set with a 24 h TTL disappears from Redis
CacheExpire(t) ==
  /\ t \in DOMAIN cache
  /\ cache' = cacheDel(cache, t)
  /\ UNCHANGED <<db, seq, mu, now, pc, req, loc, hist, result, acc, ncalls, spc, evictq, sweptTok, sweepLog>>

\* time passes                                                        (spec)
Tick ==
  /\ now < MaxTime
  /\ now' = now + 1
  /\ UNCHANGED <<db, seq, cache, mu, pc, req, loc, hist, result, acc, ncalls, spc, evictq, sweptTok, sweepLog>>

\* ------------------------------------------------------ Sweeper (spec)
\* requests whose entry (created, or being resolved) is among the deleted tokens
Affected(toks) ==
  {p \in Procs : \/ /\ pc[p] = "done" /\ req[p].op = "generate"
                    /\ result[p].kind = "ok" /\ result[p].val \in toks
                 \/ /\ req[p].op = "resolve" /\ req[p].tok \in toks}

\* mutant of afterSweepError: the error ends the loop
afterSweepError_Fatal(at) == "stopped"

\* where the Sweeper is after a tick that failed: the error is logged and the
\* loop waits for the next tick
afterSweepError(at) == "sleep"

\* Store.delete_expired(now) as one batch, which may (locked) or may not take
\* the allocation lock for its duration; an error is logged and the tick is over
SweepDelete(oks) ==
  /\ spc = "sleep"
  /\ \E locked \in BOOLEAN : locked => lockFree(mu)
  /\ \E dbok \in oks :
       LET del == IF dbok THEN expiredRows(db, now) ELSE {}
           toks == {r.short_url : r \in del}
       IN /\ db' = db \ del
          /\ evictq' = toks
          /\ spc' = IF ~dbok THEN afterSweepError(spc)
                     ELSE IF toks = {} THEN "sleep" ELSE "evict"
          /\ hist' = [p \in Procs |->
                       IF p \in Affected(toks)
                         THEN [hist[p] EXCEPT !.swept = TRUE] ELSE hist[p]]
          /\ sweepLog' =
               IF ~dbok
                 THEN [sweepLog EXCEPT !.left = {r.short_url : r \in expiredRows(db, now)}]
                 ELSE [left |-> sweepLog.left \ toks,
                       healed |-> sweepLog.healed \/ sweepLog.left \cap toks # {},
                       deleted |-> sweepLog.deleted \cup toks]
  /\ UNCHANGED <<seq, cache, mu, now, pc, req, loc, result, acc, ncalls, sweptTok>>

\* Cache.evict(token) for one returned token; an error is logged
SweepEvict(t, oks) ==
  /\ spc = "evict"
  /\ t \in evictq
  /\ \E cok \in oks :
       /\ cache' = IF cok THEN cacheDel(cache, t) ELSE cache
       /\ sweptTok' = IF cok /\ ~InStore(t)
                        THEN [k \in DOMAIN sweptTok \cup {t} |->
                                IF k = t THEN [cached |-> t \in DOMAIN cache,
                                               repop |-> FALSE]
                                         ELSE sweptTok[k]]
                        ELSE sweptTok
  /\ evictq' = evictq \ {t}
  /\ spc' = IF evictq' = {} THEN "sleep" ELSE "evict"
  /\ UNCHANGED <<db, seq, mu, now, pc, req, loc, hist, result, acc, ncalls, sweepLog>>

\* -------------------------------------------------------- specification
\* oks: the outcomes a Store or Cache operation may have (TRUE it works,
\* FALSE it fails with an I/O error)
Requests(gens, ress, limit, oks) ==
  \/ \E p \in Procs, i \in gens : GenCall(p, i.url, i.tok, i.exp, i.via, limit)
  \/ \E p \in Procs, i \in ress : ResCall(p, i.tok, i.via, limit, oks)

Steps(oks) ==
  \/ \E p \in Procs : GenCheck(p, oks)
  \/ \E p \in Procs : GenInsert(p, oks)
  \/ \E p \in Procs : ResDB(p, oks)
  \/ \E p \in Procs : ResSet(p, oks)
  \/ \E t \in ResolveTokens : CacheExpire(t)
  \/ Tick
  \/ SweepDelete(oks)
  \/ \E t \in ResolveTokens : SweepEvict(t, oks)

\* every request, at most MaxCalls of them, backends that may fail
Next == Requests(GenRequests, ResRequests, MaxCalls, BOOLEAN) \/ Steps(BOOLEAN)

Spec == Init /\ [][Next]_vars

\* the narrower requests, at most MaxCallsDeep of them, backends that work
DeepNext ==
  Requests(DeepGenRequests, DeepResRequests, MaxCallsDeep, {TRUE}) \/ Steps({TRUE})

SpecDeep == Init /\ [][DeepNext]_vars

\* the narrower requests, at most MaxCallsFault of them, backends that may fail
FaultNext ==
  Requests(DeepGenRequests, DeepResRequests, MaxCallsFault, BOOLEAN) \/ Steps(BOOLEAN)

SpecFault == Init /\ [][FaultNext]_vars

\* scheduling: a goroutine that holds the mutex goes on (weak fairness of the
\* steps inside the section), and a goroutine that waits in us.mu.Lock() gets
\* the mutex if it is free again and again (sync.Mutex hands the mutex to the
\* longest waiter once it has waited for 1 ms: strong fairness)
Fairness ==
  \A p \in Procs :
    /\ SF_vars(GenCheck(p, BOOLEAN))
    /\ SF_vars(ResDB(p, BOOLEAN))
    /\ WF_vars(GenInsert(p, BOOLEAN))
    /\ WF_vars(ResSet(p, BOOLEAN))

SpecLive == Spec /\ Fairness

\* scheduling of the Sweeper: the ticker fires again and again and the Store
\* works again at some tick (weak fairness of a deletion that works), and an
\* eviction that is due is made (weak fairness of the evictions)       (spec)
SweeperFairness ==
  /\ WF_vars(SweepDelete({TRUE}))
  /\ \A t \in ResolveTokens : WF_vars(SweepEvict(t, BOOLEAN))

SpecSweep == Spec /\ SweeperFairness

\* the encoder on its own: shortURL := encodeBase62(id) for an id of 1..MaxID,
\* in states in which nothing else of the program runs
CodecInit ==
  /\ db = {} /\ seq = 0 /\ cache = <<>> /\ mu = 0
  /\ now = MaxTime
  /\ pc = [p \in Procs |-> "codec"]
  /\ req = [p \in Procs |-> NoReq]
  /\ \E n \in 1..MaxID : loc = [p \in Procs |-> [NoLoc EXCEPT !.id = n]]
  /\ hist = [p \in Procs |-> NoHist]
  /\ result = [p \in Procs |-> NoResult]
  /\ acc = [p \in Procs |-> {}]
  /\ ncalls = 0
  /\ spc = "codec"
  /\ evictq = {}
  /\ sweepLog = NoSweepLog
  /\ sweptTok = <<>>

Encode(p) ==
  /\ pc[p] = "codec"
  /\ pc' = [pc EXCEPT ![p] = "encoded"]
  /\ result' = [result EXCEPT ![p] = Result("ok", encodeBase62(loc[p].id), "", 0)]
  /\ UNCHANGED <<db, seq, cache, mu, now, req, loc, hist, acc, ncalls, spc, evictq, sweptTok, sweepLog>>

\* the narrower requests with backends that work, and the encoder on its own
AllocNext == DeepNext \/ \E p \in Procs : Encode(p)

SpecAlloc == (Init \/ CodecInit) /\ [][AllocNext]_vars

\* the validator on its own: isValidCustomURL(customURL) for the strings of up
\* to two characters over a sample of valid and invalid characters
ValidatorChars == {"0", "A", "z", "-", "_", "@", " ", "/"}
ValidatorTokens ==
  {<<>>} \cup {<<c>> : c \in ValidatorChars}
         \cup {<<c, d>> : c \in ValidatorChars, d \in ValidatorChars}

ValidatorInit ==
  /\ db = {} /\ seq = 0 /\ cache = <<>> /\ mu = 0
  /\ now = MaxTime
  /\ pc = [p \in Procs |-> "validator"]
  /\ \E t \in ValidatorTokens : req = [p \in Procs |-> [NoReq EXCEPT !.tok = t]]
  /\ loc = [p \in Procs |-> NoLoc]
  /\ hist = [p \in Procs |-> NoHist]
  /\ result = [p \in Procs |-> NoResult]
  /\ acc = [p \in Procs |-> {}]
  /\ ncalls = 0
  /\ spc = "validator"
  /\ evictq = {}
  /\ sweepLog = NoSweepLog
  /\ sweptTok = <<>>

Validate(p) ==
  /\ pc[p] = "validator"
  /\ pc' = [pc EXCEPT ![p] = "validated"]
  /\ result' = [result EXCEPT ![p] =
                  Result(IF isValidCustomURL(req[p].tok) THEN "valid" ELSE "invalid",
                         <<>>, "", 0)]
  /\ UNCHANGED <<db, seq, cache, mu, now, req, loc, hist, acc, ncalls, spc, evictq, sweptTok, sweepLog>>

\* every request with backends that may fail, and the validator on its own
ValidNext == Next \/ \E p \in Procs : Validate(p)

SpecValid == (Init \/ ValidatorInit) /\ [][ValidNext]_vars

\* =============================================================== claims
GenDone(p) == pc[p] = "done" /\ req[p].op = "generate"
GenOK(p) == GenDone(p) /\ result[p].kind = "ok"
ResDone(p) == pc[p] = "done" /\ req[p].op = "resolve"

\* C1: the tokens returned by successful generate calls without a custom
\* token are pairwise distinct, each is the Base62 form of the id it was given,
\* and no two were derived from the same id (for calls whose entries the
\* Sweeper has not deleted in between).
C1_GeneratedTokensDistinct ==
  \A p, q \in Procs :
    ( /\ p # q
      /\ GenOK(p) /\ req[p].tok = <<>> /\ ~hist[p].swept
      /\ GenOK(q) /\ req[q].tok = <<>> /\ ~hist[q].swept )
    => /\ result[p].val # result[q].val
       /\ loc[p].id # loc[q].id
       /\ result[p].val = encodeBase62(loc[p].id)

\* two generated tokens handed out, the second to a request that came in
\* while the mutex was held
C1_Witness ==
  \E p, q \in Procs :
    /\ p # q
    /\ GenOK(p) /\ req[p].tok = <<>> /\ ~hist[p].swept
    /\ GenOK(q) /\ req[q].tok = <<>> /\ ~hist[q].swept
    /\ hist[q].held

\* C2: of the generate calls that ask for the same valid custom token, came in
\* while it was absent from the Store and met no Store failure, each returns
\* either that token or DuplicateCustomToken (the token then being in the
\* Store); no two of them succeed unless the Sweeper deleted the first entry in
\* between; and the Store holds exactly one entry for the token, the winner's.
CustomCalls(t) ==
  {p \in Procs : /\ GenDone(p) /\ req[p].tok = t /\ req[p].url # ""
                 /\ hist[p].fresh /\ ~hist[p].fault}

C2_CustomTokenExclusive ==
  \A t \in CustomTokens :
    (t # <<>> /\ \A i \in 1..Len(t) : t[i] \in validChars) =>
      /\ \A p \in CustomCalls(t) :
           \/ result[p].kind = "ok" /\ result[p].val = t
           \/ result[p].kind = "DuplicateCustomToken" /\ hist[p].present
      /\ \A p, q \in CustomCalls(t) :
           (p # q /\ result[p].kind = "ok" /\ result[q].kind = "ok")
             => (hist[p].swept \/ hist[q].swept)
      /\ \A p \in CustomCalls(t) :
           (result[p].kind = "ok" /\ ~hist[p].swept)
             => {r \in db : r.short_url = t}
                  = {Row(loc[p].id, t, req[p].url, req[p].exp)}

\* two such calls with different URLs: one won, the other was told Duplicate
C2_Witness ==
  \E t \in CustomTokens, p, q \in Procs :
    /\ p # q /\ p \in CustomCalls(t) /\ q \in CustomCalls(t)
    /\ req[p].url # req[q].url
    /\ result[p].kind = "ok" /\ ~hist[p].swept
    /\ result[q].kind = "DuplicateCustomToken"
    /\ StoredURL(t) = req[p].url

\* C3 as stated: a resolve of a token that a finished generate returned (the
\* entry not swept, the Store lookup not failing) returns that call's URL.
C3_RoundTripAlways ==
  \A p \in Procs :
    (ResDone(p) /\ hist[p].gurl # "" /\ ~hist[p].swept /\ ~hist[p].fault)
      => (result[p].kind = "found" /\ result[p].url = hist[p].gurl)

\* C3 amended: ... provided the Cache held no value for the token, left from an
\* earlier entry, when the generate inserted it.
C3_RoundTrip ==
  \A p \in Procs :
    ( /\ ResDone(p) /\ hist[p].gurl # "" /\ ~hist[p].swept /\ ~hist[p].fault
      /\ ~hist[p].gstale )
      => (result[p].kind = "found" /\ result[p].url = hist[p].gurl)

\* a round trip after a sweep has deleted an entry
C3_Witness ==
  \E p \in Procs :
    /\ ResDone(p) /\ hist[p].gurl # "" /\ ~hist[p].swept /\ ~hist[p].gstale
    /\ result[p].kind = "found" /\ result[p].url = hist[p].gurl
    /\ \E q \in Procs : q # p /\ hist[q].swept

\* C4 as stated: once a tick has deleted an expired entry and evicted its token,
\* the Store and the Cache hold nothing for the token and every resolve that
\* comes in from then on (the token not allocated again) returns not-found.
C4_ExpiredUnresolvableAlways ==
  /\ \A t \in DOMAIN sweptTok : ~InStore(t) /\ t \notin DOMAIN cache
  /\ \A p \in Procs :
       (ResDone(p) /\ hist[p].gswept) => result[p].kind = "notfound"

\* C4 amended: ... provided no resolve that read the entry from the Store before
\* the deletion has populated the Cache with it after the eviction.
C4_ExpiredUnresolvable ==
  /\ \A t \in DOMAIN sweptTok :
       ~InStore(t) /\ (~sweptTok[t].repop => t \notin DOMAIN cache)
  /\ \A p \in Procs :
       (ResDone(p) /\ hist[p].gswept /\ ~hist[p].grepop)
         => (result[p].kind = "notfound" /\ result[p].url = "")

\* an entry created already expired, cached by a resolve, swept by a tick that
\* evicted it from the Cache, and then resolved again: not found
C4_Witness ==
  \E p, q \in Procs :
    /\ GenOK(q) /\ hist[q].past /\ hist[q].swept
    /\ result[q].val \in DOMAIN sweptTok
    /\ sweptTok[result[q].val].cached
    /\ ResDone(p) /\ req[p].tok = result[q].val
    /\ hist[p].gswept /\ ~hist[p].grepop
    /\ result[p].kind = "notfound"

\* C5: a generate whose custom token holds a character outside the alphabet
\* plus '-' and '_' returns InvalidCustomToken, has neither read the Store nor
\* inserted, and the step that rejects it leaves the Store as it was; a
\* generate whose non-empty custom token holds only such characters and is not
\* in the Store at the existence check returns exactly that token (no Store
\* failure met).
InvalidToken(tok) == \E i \in 1..Len(tok) : tok[i] \notin validChars

C5_TokenValidation ==
  /\ [](\A p \in Procs :
          (GenDone(p) /\ req[p].tok # <<>>) =>
            /\ InvalidToken(req[p].tok) =>
                 /\ result[p].kind = "InvalidCustomToken"
                 /\ acc[p] \cap {"store", "insert"} = {}
            /\ (~InvalidToken(req[p].tok) /\ ~hist[p].fault /\ ~hist[p].present) =>
                 /\ result[p].kind = "ok"
                 /\ result[p].val = req[p].tok)
  /\ [][\A p \in Procs :
          (pc[p] = "g_lock" /\ InvalidToken(req[p].tok) /\ pc'[p] # pc[p])
            => (db' = db /\ pc'[p] = "done")]_vars

\* "a@" was rejected and "x_" was handed out
C5_Witness ==
  \E p, q \in Procs :
    /\ GenDone(p) /\ InvalidToken(req[p].tok)
    /\ result[p].kind = "InvalidCustomToken"
    /\ GenDone(q) /\ req[q].tok = <<"x", "_">>
    /\ result[q].kind = "ok" /\ result[q].val = <<"x", "_">>

\* C6: a generate whose valid custom token is in the Store at the existence
\* check (put there as a custom token or as a generated one) returns
\* DuplicateCustomToken without inserting, and the step that returns it leaves
\* every entry of the Store, and the Cache, as they were (no Store failure
\* met).
C6_DuplicateLeavesEntry ==
  /\ [](\A p \in Procs :
          ( /\ GenDone(p) /\ req[p].tok # <<>> /\ ~InvalidToken(req[p].tok)
            /\ ~hist[p].fault /\ hist[p].present )
          => /\ result[p].kind = "DuplicateCustomToken"
             /\ "insert" \notin acc[p])
  /\ [][\A p \in Procs :
          (pc[p] = "g_lock" /\ result'[p].kind = "DuplicateCustomToken")
            => (db' = db /\ cache' = cache)]_vars

\* the custom token "2" refused while the Store holds "2" as a generated
\* token, with the URL of the call that generated it
C6_Witness ==
  \E p, q \in Procs :
    /\ GenDone(p) /\ req[p].tok = <<"2">> /\ hist[p].present
    /\ result[p].kind = "DuplicateCustomToken"
    /\ GenOK(q) /\ req[q].tok = <<>> /\ result[q].val = <<"2">> /\ ~hist[q].swept
    /\ req[q].url # req[p].url
    /\ InStore(<<"2">>) /\ StoredURL(<<"2">>) = req[q].url

\* C7: a generate with an empty original_url returns EmptyURL without touching
\* the Store, and no entry of the Store has an empty original_url.
C7_NoEmptyOriginalURL ==
  /\ \A r \in db : r.original_url # ""
  /\ \A p \in Procs :
       (GenDone(p) /\ req[p].url = "")
         => (result[p].kind = "EmptyURL" /\ acc[p] = {})

\* C8: a resolve of the empty token returns ("", false) and has read neither
\* the Cache nor the Store and has not taken the mutex.
C8_EmptyTokenNoAccess ==
  \A p \in Procs :
    (ResDone(p) /\ req[p].tok = <<>>)
      => /\ result[p].kind # "found" /\ result[p].url = ""
         /\ acc[p] = {}

\* C9: a resolve whose token the Cache holds at the Cache read (the read not
\* failing) returns the cached URL having touched nothing but the Cache, and
\* whenever the Cache holds a token a resolve of it can run to its end in one
\* step, whoever holds the mutex.
C9_CacheHitBypassesLock ==
  /\ \A p \in Procs :
       (ResDone(p) /\ hist[p].cached /\ ~hist[p].cerr)
         => /\ result[p].kind = "found" /\ result[p].url = hist[p].cval
            /\ acc[p] = {"cache"}
  /\ \A p \in Procs, t \in DOMAIN cache :
       (pc[p] \in {"idle", "done"} /\ ncalls < MaxCallsDeep)
         => ENABLED (ResCall(p, t, "handler", MaxCallsDeep, {TRUE}) /\ pc'[p] = "done")

\* a resolve answered from the Cache while another request held the mutex
C9_Witness ==
  \E p \in Procs :
    /\ ResDone(p) /\ hist[p].cached /\ hist[p].held
    /\ mu \notin {0, p}
    /\ result[p].kind = "found" /\ acc[p] = {"cache"}

\* C10: a resolve whose Cache read fails goes on to the Store under the mutex
\* and, the Store lookup not failing, returns the URL of the entry if the Store
\* holds the token and not-found if it does not.
C10_CacheErrorIsMiss ==
  \A p \in Procs :
    (ResDone(p) /\ hist[p].cerr)
      => /\ {"lock", "store"} \subseteq acc[p]
         /\ ~hist[p].fault =>
              IF hist[p].present
                THEN result[p].kind = "found" /\ result[p].url = hist[p].purl
                ELSE result[p].kind = "notfound" /\ result[p].url = ""

\* the Cache read failed and the URL came from the Store
C10_Witness ==
  \E p \in Procs :
    /\ ResDone(p) /\ hist[p].cerr /\ hist[p].present
    /\ result[p].kind = "found" /\ result[p].url # ""

\* C11 as stated: a resolve whose Cache write fails returns the URL that the
\* Store holds for the token, and after the failed write the Cache holds no
\* value for the token.
C11_CacheLeftWithoutEntry ==
  /\ [](\A p \in Procs :
          (ResDone(p) /\ "cacheerr" \in acc[p])
            => (result[p].kind = "found" /\ result[p].url = hist[p].purl))
  /\ [][\A p \in Procs :
          (pc[p] = "r_set" /\ "cacheerr" \in acc'[p])
            => req[p].tok \notin DOMAIN cache']_vars

\* C11 amended: ... and the failed write leaves the Cache as it was (it holds a
\* value for the token only if it held that value before the write).
C11_CacheWriteFailure ==
  /\ [](\A p \in Procs :
          (ResDone(p) /\ "cacheerr" \in acc[p])
            => /\ hist[p].present
               /\ result[p].kind = "found" /\ result[p].url = hist[p].purl)
  /\ [][\A p \in Procs :
          (pc[p] = "r_set" /\ "cacheerr" \in acc'[p])
            => (cache' = cache /\ result'[p].url = loc[p].url)]_vars

\* the write failed, the URL came from the Store, the Cache has nothing
C11_Witness ==
  \E p \in Procs :
    /\ ResDone(p) /\ "cacheerr" \in acc[p] /\ ~hist[p].cached
    /\ result[p].kind = "found" /\ result[p].url # ""
    /\ req[p].tok \notin DOMAIN cache

\* C12: a resolve whose Store lookup fails with an I/O error does not come
\* back as not-found: the caller can tell the failure from a token that is not
\* there.
C12_StoreFailureNotNotFound ==
  \A p \in Procs :
    (ResDone(p) /\ hist[p].fault)
      => (result[p].kind # "notfound" /\ result[p].status # 404)

\* C13: the handler answers EmptyURL, InvalidCustomToken and
\* DuplicateCustomToken with a client-error status (4xx) and a Store failure of
\* generate with a server-error status (5xx), never with a client-error status.
C13_GenerateErrorClasses ==
  \A p \in Procs :
    (GenDone(p) /\ req[p].via = "handler") =>
      /\ result[p].kind \in {"EmptyURL", "InvalidCustomToken", "DuplicateCustomToken"}
           => result[p].status \in 400..499
      /\ result[p].kind = "StoreError" => result[p].status \in 500..599
      /\ (hist[p].fault /\ result[p].kind # "ok") => result[p].status \notin 400..499

\* C14: the entry of a successful generate (not yet deleted by the Sweeper) is
\* the one row of its token and holds the URL and exactly the expiration of the
\* call, none if the call gave none; no step of a resolve changes the Store.
ResolveStep ==
  \E p \in Procs :
    \/ \E i \in ResRequests : ResCall(p, i.tok, i.via, ncalls + 1, BOOLEAN)
    \/ ResDB(p, BOOLEAN)
    \/ ResSet(p, BOOLEAN)

digitOf(c) == CHOOSE d \in 0..(base - 1) : charset[d + 1] = c

RECURSIVE decodeBase62(_)
decodeBase62(tok) ==
  IF tok = <<>> THEN 0
  ELSE decodeBase62(SubSeq(tok, 1, Len(tok) - 1)) * base + digitOf(tok[Len(tok)])

C15_NextIdAndEncoding ==
  /\ \A p \in Procs :
       (GenOK(p) /\ req[p].tok = <<>>) =>
         /\ \A n \in hist[p].ids : n < loc[p].id
         /\ IF hist[p].ids = {} THEN loc[p].id = 1 /\ result[p].val = <<"1">>
                                ELSE (loc[p].id - 1) \in hist[p].ids
         /\ result[p].val = encodeBase62(loc[p].id)
  /\ \A p \in Procs :
       pc[p] = "encoded" =>
         /\ result[p].val # <<>>
         /\ \A i \in 1..Len(result[p].val) : result[p].val[i] \in validChars
         /\ decodeBase62(result[p].val) = loc[p].id

\* "1" handed out on the empty table, then the successor of the highest id
C15_Witness ==
  \E p, q \in Procs :
    /\ GenOK(p) /\ req[p].tok = <<>> /\ hist[p].ids = {} /\ result[p].val = <<"1">>
    /\ GenOK(q) /\ req[q].tok = <<>> /\ hist[q].ids # {} /\ loc[q].id > 1

\* C16: the validator answers true exactly for the non-empty strings whose
\* characters are all in the alphabet plus '-' and '_' (false for the empty
\* string), and a generate with an empty custom token is never answered
\* InvalidCustomToken: it takes the generated path and returns the Base62 form
\* of its id.
C16_ValidateCustomToken ==
  /\ \A p \in Procs :
       pc[p] = "validated" =>
         (result[p].kind = "valid"
            <=> (req[p].tok # <<>> /\ ~InvalidToken(req[p].tok)))
  /\ \A p \in Procs :
       (GenDone(p) /\ req[p].tok = <<>> /\ req[p].url # "") =>
         /\ result[p].kind # "InvalidCustomToken"
         /\ result[p].kind = "ok" => result[p].val = encodeBase62(loc[p].id)

\* C17: a resolve of a non-empty token that the Cache does not hold at the
\* Cache read and the Store does not hold at the lookup returns ("", false),
\* whether or not the Cache or the Store operation fails.
C17_AbsentTokenNotFound ==
  \A p \in Procs :
    (ResDone(p) /\ req[p].tok # <<>> /\ ~hist[p].cached /\ ~hist[p].present)
      => /\ result[p].kind = "notfound" /\ result[p].url = ""
         /\ result[p].status \in {0, 404}

\* not found although the Store holds an entry for another token
C17_Witness ==
  \E p \in Procs :
    /\ ResDone(p) /\ req[p].tok # <<>> /\ ~hist[p].cached /\ ~hist[p].present
    /\ ~hist[p].fault /\ "store" \in acc[p]
    /\ db # {}
    /\ result[p].kind = "notfound"

\* C18: at most one request is between taking the mutex and releasing it
\* (after SELECT MAX(id)+1 or SELECT EXISTS and before the INSERT has returned,
\* or after the SELECT of resolve and before its return); the mutex is held
\* exactly then, by that request, and while it is held no other request can
\* take its first step under the mutex.
InSection(p) == pc[p] \in {"g_insert", "r_set"}

C18_MutualExclusion ==
  /\ \A p, q \in Procs : (InSection(p) /\ InSection(q)) => p = q
  /\ \A p \in Procs : InSection(p) <=> mu = p
  /\ mu \in Procs =>
       \A q \in Procs : ~ENABLED (GenCheck(q, BOOLEAN) \/ ResDB(q, BOOLEAN))

\* a generate between its SELECT and its INSERT while another request waits
\* for the mutex
C18_Witness ==
  \E p, q \in Procs :
    /\ p # q
    /\ pc[p] = "g_insert" /\ mu = p
    /\ pc[q] \in {"g_lock", "r_lock"}

\* C19: a request that has returned, on whatever path, does not hold the
\* mutex; when no request is in flight the mutex is free; and a request that
\* has come to its us.mu.Lock() gets through it and returns.
Waiting(p) == pc[p] \in {"g_lock", "r_lock"}

C19_LockReleased ==
  /\ [](\A p \in Procs : pc[p] \in {"idle", "done"} => mu # p)
  /\ []((\A p \in Procs : pc[p] \in {"idle", "done"}) => mu = 0)
  /\ \A p \in Procs : Waiting(p) ~> (pc[p] = "done")

\* a generate returned with a Store error from inside the section, and the
\* request that had come in while it held the mutex has got the mutex since
C19_Witness ==
  \E p, q \in Procs :
    /\ p # q
    /\ GenDone(p) /\ result[p].kind = "StoreError" /\ "insert" \notin acc[p]
    /\ pc[q] = "done" /\ hist[q].held /\ "lock" \in acc[q]
    /\ mu = 0

\* C20: a resolve that has found the token in the Store and is about to write
\* the Cache does not hold the mutex, and a generate that waits for the mutex
\* at that moment can go on.
C20_CacheWriteOutsideLock ==
  \A p \in Procs :
    pc[p] = "r_set" =>
      /\ mu # p
      /\ \A q \in Procs : pc[q] = "g_lock" => ENABLED GenCheck(q, BOOLEAN)

\* C21: a generate without a custom token whose Store operations all work
\* never meets a constraint violation: at its INSERT the token encoded from its
\* id is absent from the Store, and it returns the token.
C21_GeneratedNeverCollides ==
  \A p \in Procs :
    /\ (pc[p] = "g_insert" /\ req[p].tok = <<>>)
         => ~existsShort(db, encodeBase62(loc[p].id))
    /\ (GenDone(p) /\ req[p].tok = <<>> /\ "lock" \in acc[p] /\ ~hist[p].fault)
         => result[p].kind = "ok"

\* C22: no id is issued twice: two finished generate calls without a custom
\* token were given different ids, whether or not the Sweeper has deleted the
\* entry of the first in between; and only generated tokens carry an id: the
\* token of every row of the table is the Base62 form of the id of the row.
C22_IdsNeverReissued ==
  /\ \A p, q \in Procs :
       ( /\ p # q
         /\ GenOK(p) /\ req[p].tok = <<>>
         /\ GenOK(q) /\ req[q].tok = <<>> )
       => loc[p].id # loc[q].id
  /\ \A r \in db : r.short_url = encodeBase62(r.id)

\* C23: a step removes rows of the table only as the deletion of a Sweeper
\* tick: the rows removed are exactly those with a non-null expiration earlier
\* than the clock, the Cache is not touched by that step, and the tokens handed
\* to the eviction are exactly the tokens of the removed rows; the eviction
\* comes after it, takes these tokens one by one, removes at most that token
\* from the Cache, and the tick is over only when none is left.
C23_SweepDeletesThenEvicts ==
  [][ LET removed == db \ db'
      IN /\ removed # {} =>
              /\ spc = "sleep"
              /\ removed = {r \in db : /\ r.expiration_time # <<>>
                                       /\ r.expiration_time[1] < now}
              /\ db' \subseteq db
              /\ cache' = cache
              /\ evictq' = {r.short_url : r \in removed}
         /\ evictq' # evictq =>
              \/ spc = "sleep" /\ evictq = {} /\ evictq' = {r.short_url : r \in removed}
              \/ /\ spc = "evict" /\ db' = db
                 /\ \E t \in evictq : /\ evictq' = evictq \ {t}
                                      /\ cache' \in {cache, cacheDel(cache, t)}
         /\ (spc' = "sleep") = (evictq' = {}) ]_vars

\* a tick has deleted an expired entry and evicted its token, and an entry
\* without expiration is still in the Store
C23_Witness ==
  /\ spc = "sleep"
  /\ sweptTok # <<>>
  /\ \E r \in db : r.expiration_time = <<>>

\* C24: the Sweeper is never stopped: it is waiting for a tick or evicting, and
\* one of its steps is possible; and an expired entry that a failed deletion
\* left in the Store is removed later on.
C24_SweeperGoesOn ==
  /\ [](spc \in {"sleep", "evict"})
  /\ [](ENABLED (SweepDelete(BOOLEAN) \/ \E t \in ResolveTokens : SweepEvict(t, BOOLEAN)))
  /\ \A t \in ResolveTokens : (t \in sweepLog.left) ~> ~InStore(t)

\* a later tick has removed an entry that a failed deletion had left behind
C24_Witness ==
  /\ sweepLog.healed
  /\ sweepLog.left = {}
  /\ spc = "sleep"

\* C25 as claimed: whenever the Store holds an entry for a token and the Cache
\* holds a value for it, the value is the original_url of the entry.
C25_CacheAgreesWithStoreAlways ==
  \A t \in DOMAIN cache : InStore(t) => cache[t] = StoredURL(t)

\* C25: whenever the Store holds an entry for a token of which no tick of the
\* Sweeper has deleted an entry before, and the Cache holds a value for the
\* token, the value is the original_url of the entry; and a resolve that read
\* such an entry from the Store returned its original_url.
C25_CacheAgreesWithStore ==
  /\ \A t \in DOMAIN cache :
       (InStore(t) /\ t \notin sweepLog.deleted) => cache[t] = StoredURL(t)
  /\ \A p \in Procs :
       ( /\ ResDone(p) /\ result[p].kind = "found" /\ "store" \in acc[p]
         /\ req[p].tok \notin sweepLog.deleted )
       => /\ hist[p].present
          /\ result[p].url = hist[p].purl
          /\ InStore(req[p].tok) /\ result[p].url = StoredURL(req[p].tok)

\* the Sweeper has deleted the entry of one token, and another token, never
\* deleted, is in the Store and in the Cache, written there by a resolve
C25_Witness ==
  \E p \in Procs :
    /\ ResDone(p) /\ result[p].kind = "found" /\ "cacheset" \in acc[p]
    /\ req[p].tok \in DOMAIN cache /\ InStore(req[p].tok)
    /\ req[p].tok \notin sweepLog.deleted
    /\ sweepLog.deleted # {}

\* C26: no step of a resolve changes the table or its sequence; a step of a
\* resolve that changes the Cache is the last step of a resolve that has found
\* its token in the Store, and it adds (or overwrites) the value of that token
\* alone, with the original_url it found; so a step that ends a resolve with
\* not-found, or with a value read from the Cache, changes neither.
C26_ResolveFrame ==
  [][ ResolveStep =>
        /\ db' = db /\ seq' = seq
        /\ \/ cache' = cache
           \/ \E p \in Procs :
                /\ pc[p] = "r_set" /\ pc'[p] = "done"
                /\ hist[p].present
                /\ result'[p].kind = "found" /\ result'[p].url = hist[p].purl
                /\ DOMAIN cache' = DOMAIN cache \cup {req[p].tok}
                /\ cache'[req[p].tok] = hist[p].purl
                /\ \A t \in DOMAIN cache \ {req[p].tok} : cache'[t] = cache[t]
        /\ \A p \in Procs :
             (pc[p] # "done" /\ pc'[p] = "done" /\ req'[p].op = "resolve"
               /\ (result'[p].kind # "found" \/ pc[p] # "r_set"))
             => cache' = cache ]_vars

\* one resolve came back with not-found, another was served from the Cache,
\* which a resolve before it had filled from the Store
C26_Witness ==
  \E p, q \in Procs :
    /\ p # q
    /\ ResDone(p) /\ result[p].kind = "notfound" /\ "store" \in acc[p]
    /\ ResDone(q) /\ result[q].kind = "found" /\ acc[q] = {"cache"}
    /\ hist[q].cached /\ req[q].tok \in DOMAIN cache /\ InStore(req[q].tok)

====
